---------------------------- MODULE Spec2Model ----------------------------
(***************************************************************************)
(* Model of dd::MLModel (src/src/mlmodel.h): the model repository of       *)
(* deepdetect.  Three parts of the class are modelled:                     *)
(*   - the table of class correspondences (read_corresp_file,              *)
(*     get_hcorresp), specification SpecCorresp;                           *)
(*   - the similarity search engine life cycle (create_sim_search,         *)
(*     create_index, build_index, remove_index, ~MLModel),                 *)
(*     specification SpecIndex, and with a copy of the model made by the   *)
(*     implicit copy operations, specification SpecCopy;                   *)
(*   - construction: init_repo_dir and read_config_json, run by the        *)
(*     constructors, specification Spec.                                   *)
(* std::string values are sequences of one-character strings.              *)
(***************************************************************************)
EXTENDS Integers, Sequences, FiniteSets, TLC

VARIABLES
  \* ---- table of class correspondences
  corresp,      \* _corresp: file name of the class correspondences
  cfile,        \* the file _corresp names: whether it opens, and its characters
  hcorresp,     \* _hcorresp: function from int keys to labels
  cpc,          \* "new", "loaded", or "threw" (std::stoi raised)
  ret,          \* last get_hcorresp call: <<i, returned string>>, or <<>>
  \* ---- similarity search engine
  backend,      \* build variant: "annoy", "faiss" or "faiss_gpu"
  se,           \* _se: None (nullptr) or Some(SearchEngine object)
  index_preload,\* _index_preload
  nnew,         \* number of SearchEngine objects constructed so far
  ndelete,      \* number of delete _se executed
  tse,          \* backend side: calls received and artifacts on disk
  alive,        \* FALSE once ~MLModel has run
  twin,         \* a second MLModel made by the implicit copy operations: whether
                \* it was made, whether it is alive, and its own _se pointer
  lastcall,     \* the last member function called and what it found
  \* ---- construction
  pc,           \* position of the running constructor
  ctor,         \* which constructor runs
  ad,           \* the APIData the constructor was given
  adg,          \* the caller's parameter set (APIData &adg)
  logger,       \* TRUE: a logger object; FALSE: nullptr
  repo,         \* _repo
  fs,           \* the filesystem: function from paths to entries
  loc,          \* locals of init_repo_dir: exists, isDir, compressedf, modelf,
                \* outcode, content, and staged: the branch of line 234 was taken
  result,       \* how the constructor ended
  log,          \* collaborator calls made by the running constructor
  runs          \* number of constructor runs started

cvars == <<corresp, cfile, hcorresp, cpc, ret>>
ivars == <<backend, se, index_preload, nnew, ndelete, tse, alive, twin, lastcall>>
rvars == <<pc, ctor, ad, adg, logger, repo, fs, loc, result, log, runs>>
vars == <<cvars, ivars, rvars>>

\* an optional value (a pointer, an APIData key, a nullable DTO field): None when
\* it is null or absent, Some(v) when it holds v
None == <<>>

Some(v) == <<v>>

IsSome(o) == o # <<>>

Val(o) == o[1]

-----------------------------------------------------------------------------
(* std::string helpers *)

\* the characters "0".."9" and their values
Digits == <<"0", "1", "2", "3", "4", "5", "6", "7", "8", "9">>

IsDigit(c) == \E d \in 1..10 : Digits[d] = c

DigitVal(c) == (CHOOSE d \in 1..10 : Digits[d] = c) - 1

\* std::string::find(pat): the first position (0-based) of pat in s, or npos (-1)
Find(s, pat) ==
  LET hits == {i \in 1..(Len(s) - Len(pat) + 1) : SubSeq(s, i, i + Len(pat) - 1) = pat}
  IN IF hits = {} THEN -1 ELSE (CHOOSE i \in hits : \A j \in hits : i <= j) - 1

\* std::string::find_last_of(c): the last position (0-based) of character c, or npos (-1)
FindLastOf(s, c) ==
  LET hits == {i \in 1..Len(s) : s[i] = c}
  IN IF hits = {} THEN -1 ELSE (CHOOSE i \in hits : \A j \in hits : i >= j) - 1

\* std::string::substr(pos): the characters from 0-based position pos on
SubstrFrom(s, pos) == SubSeq(s, pos + 1, Len(s))

\* std::string::substr(0, n) with n = npos meaning "to the end"
SubstrTo(s, n) == IF n = -1 THEN s ELSE SubSeq(s, 1, n)

\* std::to_string(int)
RECURSIVE NatToString(_)
NatToString(n) ==
  IF n < 10 THEN <<Digits[n + 1]>>
  ELSE NatToString(n \div 10) \o <<Digits[(n % 10) + 1]>>

to_string(i) == IF i < 0 THEN <<"-">> \o NatToString(0 - i) ELSE NatToString(i)

\* std::stoi(key): optional sign, then the longest prefix of digits: Some(value),
\* or None when it throws std::invalid_argument (no digit to convert)
RECURSIVE DigitsPrefixVal(_, _)
DigitsPrefixVal(s, acc) ==
  IF s = <<>> \/ ~IsDigit(Head(s)) THEN acc
  ELSE DigitsPrefixVal(Tail(s), 10 * acc + DigitVal(Head(s)))

stoi(key) ==
  LET neg  == key # <<>> /\ Head(key) = "-"
      body == IF key # <<>> /\ Head(key) \in {"-", "+"} THEN Tail(key) ELSE key
  IN IF body = <<>> \/ ~IsDigit(Head(body)) THEN None
     ELSE IF neg THEN Some(0 - DigitsPrefixVal(body, 0))
     ELSE Some(DigitsPrefixVal(body, 0))

-----------------------------------------------------------------------------
(* Table of class correspondences: read_corresp_file, get_hcorresp *)

SP == " "

NL == "\n"

EmptyMap == [k \in {} |-> <<>>]

\* std::unordered_map::insert: a key already in the map keeps its value
MapInsert(m, k, v) ==
  IF k \in DOMAIN m THEN m
  ELSE [x \in (DOMAIN m) \cup {k} |-> IF x = k THEN v ELSE m[x]]

\* the body of the while loop for one line: key is the text before the first
\* space, value the text after it; an empty key adds nothing; std::stoi may throw
CorrespLine(st, line) ==
  LET key == SubstrTo(line, Find(line, <<SP>>))
  IN IF key = <<>> THEN st
     ELSE LET value == SubstrFrom(line, Find(line, <<SP>>) + 1)
          IN IF ~IsSome(stoi(key)) THEN [st EXCEPT !.threw = TRUE]
             ELSE [st EXCEPT !.map = MapInsert(st.map, Val(stoi(key)), value)]

\* while (!ff.eof()) { std::getline(ff, line); ... } over the unread characters:
\* getline takes the characters up to the next newline; when there is none it
\* takes what is left and sets eof
RECURSIVE CorrespLoop(_, _)
CorrespLoop(st, rest) ==
  LET n    == Find(rest, <<NL>>)
      line == SubstrTo(rest, n)
      st2  == CorrespLine(st, line)
  IN IF st2.threw \/ n = -1 THEN st2
     ELSE CorrespLoop(st2, SubstrFrom(rest, n + 1))

\* read_corresp_file: the table after the call, and whether std::stoi threw
ReadCorrespFile(path, file, map) ==
  IF path = <<>> THEN [map |-> map, threw |-> FALSE]
  ELSE IF ~file.readable THEN [map |-> map, threw |-> FALSE]
  ELSE CorrespLoop([map |-> map, threw |-> FALSE], file.text)

read_corresp_file ==
  /\ cpc = "new"
  /\ LET r == ReadCorrespFile(corresp, cfile, hcorresp)
     IN /\ hcorresp' = r.map
        /\ cpc' = IF r.threw THEN "threw" ELSE "loaded"
  /\ ret' = <<>>
  /\ UNCHANGED <<corresp, cfile, ivars, rvars>>

\* get_hcorresp without its test of _hcorresp.empty()
GetHcorrespRet_unguarded(map, i) == IF i \in DOMAIN map THEN map[i] ELSE <<>>

\* get_hcorresp: the returned string
GetHcorrespRet(map, i) ==
  IF DOMAIN map = {} THEN to_string(i)
  ELSE IF i \in DOMAIN map THEN map[i] ELSE <<>>

\* get_hcorresp: the table after the call (operator[] adds a missing key with
\* an empty label)
GetHcorrespMap(map, i) ==
  IF DOMAIN map = {} THEN map ELSE MapInsert(map, i, <<>>)

get_hcorresp(i) ==
  /\ cpc \in {"new", "loaded"}
  /\ ret' = <<i, GetHcorrespRet(hcorresp, i)>>
  /\ hcorresp' = GetHcorrespMap(hcorresp, i)
  /\ UNCHANGED <<corresp, cfile, cpc, ivars, rvars>>

\* the file name of the correspondences set by the owner of the model
CorrespPath == <<"c">>

\* contents of correspondence files
File_cat_dog == <<"3", SP, "c", "a", "t", NL, "5", SP, "d", "o", "g", NL>>

File_empty == <<>>

File_dup == <<"3", SP, "c", "a", "t", NL, "3", SP, "c", "o", "w">>

File_blank_key == <<SP, "x", NL, "1", "2", SP, "a", SP, "b", NL, NL, "7">>

File_neg == <<"-", "1", SP, "n", NL, "0", SP, "z", NL>>

File_bad_key == <<"5", SP, "d", NL, "x", SP, "y", NL, "3", SP, "c">>

CorrespFiles ==
  {File_cat_dog, File_empty, File_dup, File_blank_key, File_neg, File_bad_key}

\* indices looked up; MaxIndex is the largest index of the plain range
MaxIndex == 7

LookupKeys == {-1, 0, 3, 5, 12} \cup (6..MaxIndex)

InitCorresp ==
  /\ corresp \in {<<>>, CorrespPath}
  /\ cfile \in [readable : {TRUE}, text : CorrespFiles]
              \cup {[readable |-> FALSE, text |-> <<>>]}
  /\ hcorresp = EmptyMap
  /\ cpc = "new"
  /\ ret = <<>>

-----------------------------------------------------------------------------
(* Similarity search engine (USE_SIMSEARCH): create_sim_search,            *)
(* create_index, build_index, remove_index, ~MLModel                       *)

\* most calls the backend receives in one behaviour
MaxBackendCalls == 3

Backends == {"annoy", "faiss", "faiss_gpu"}

Dims == {8, 16}

\* a tuning field the caller did not supply is nullptr (None)
OutputParams ==
  [index_type    : {None, Some("IVF")},
   train_samples : {None, Some(100)},
   ondisk        : {None, Some(TRUE)},
   nprobe        : {None, Some(4)},
   index_gpu     : {None, Some(TRUE), Some(FALSE)},
   index_gpuid   : {None, Some(1)}]

\* the backend object (_se->_tse) as its constructor leaves it: None is a field
\* that still has the backend's default
DefaultTse ==
  [index_key |-> None, train_samples_size |-> None, ondisk |-> None,
   nprobe |-> None, gpu |-> None, gpuids |-> None, map_populate |-> None]

BackendCalls == tse.ncreate + tse.nupdate + tse.nremove

\* SearchEngine::create_index as the backend sees it
TseCreateIndex(t) ==
  [t EXCEPT !.ncreate = @ + 1,
            !.artifacts = IF @ = "none" THEN "created" ELSE @]

\* SearchEngine::update_index
TseUpdateIndex(t) == [t EXCEPT !.nupdate = @ + 1, !.artifacts = "built"]

\* SearchEngine::remove_index
TseRemoveIndex(t) == [t EXCEPT !.nremove = @ + 1, !.artifacts = "none"]

\* the tuning with the probe count left out
Tuning_no_nprobe(b, preload, op) ==
  IF b = "annoy" THEN [DefaultTse EXCEPT !.map_populate = Some(preload)]
  ELSE LET t1 == IF IsSome(op.index_type)
                 THEN [DefaultTse EXCEPT !.index_key = op.index_type] ELSE DefaultTse
           t2 == IF IsSome(op.train_samples)
                 THEN [t1 EXCEPT !.train_samples_size = op.train_samples] ELSE t1
           t3 == IF IsSome(op.ondisk) THEN [t2 EXCEPT !.ondisk = op.ondisk] ELSE t2
           t5 == IF b = "faiss_gpu"
                 THEN [t3 EXCEPT !.gpu = Some(op.index_gpu = Some(TRUE))] ELSE t3
           t6 == IF b = "faiss_gpu" /\ IsSome(op.index_gpuid)
                 THEN [t5 EXCEPT !.gpu = Some(TRUE), !.gpuids = op.index_gpuid] ELSE t5
       IN t6

\* the tuning written by create_sim_search between new and create_index
Tuning(b, preload, op) ==
  IF b = "annoy" THEN [DefaultTse EXCEPT !.map_populate = Some(preload)]
  ELSE LET t1 == IF IsSome(op.index_type)
                 THEN [DefaultTse EXCEPT !.index_key = op.index_type] ELSE DefaultTse
           t2 == IF IsSome(op.train_samples)
                 THEN [t1 EXCEPT !.train_samples_size = op.train_samples] ELSE t1
           t3 == IF IsSome(op.ondisk) THEN [t2 EXCEPT !.ondisk = op.ondisk] ELSE t2
           t4 == IF IsSome(op.nprobe) THEN [t3 EXCEPT !.nprobe = op.nprobe] ELSE t3
           t5 == IF b = "faiss_gpu"
                 THEN [t4 EXCEPT !.gpu = Some(op.index_gpu = Some(TRUE))] ELSE t4
           t6 == IF b = "faiss_gpu" /\ IsSome(op.index_gpuid)
                 THEN [t5 EXCEPT !.gpu = Some(TRUE), !.gpuids = op.index_gpuid] ELSE t5
       IN t6

\* create_sim_search without its test of _se
NoEngine_untested(s) == TRUE

\* the test that guards the body of create_sim_search
NoEngine(s) == ~IsSome(s)

create_sim_search(dim, op) ==
  /\ alive
  /\ BackendCalls < MaxBackendCalls
  /\ lastcall' = [op |-> "create_sim_search", had_se |-> IsSome(se)]
  /\ IF NoEngine(se)
     THEN /\ se' = Some([dim |-> dim, repo |-> repo, given |-> op,
                          tse |-> Tuning(backend, index_preload, op)])
          /\ nnew' = nnew + 1
          /\ tse' = TseCreateIndex(tse)
     ELSE UNCHANGED <<se, nnew, tse>>
  /\ UNCHANGED <<backend, index_preload, ndelete, alive, twin, cvars, rvars>>

\* the backend called without the test of _se
HasEngine_untested(s) == TRUE

\* the test that guards the backend call in create_index, build_index, remove_index
HasEngine(s) == IsSome(s)

\* the object _se points to was deleted by the destructor of another MLModel
Freed == ndelete > 0

\* a call through a dangling _se is undefined: it may go on as if the object
\* were there, or end the process
Crash ==
  /\ alive' = FALSE
  /\ twin' = [twin EXCEPT !.alive = FALSE]
  /\ lastcall' = [op |-> "crash", had_se |-> TRUE]
  /\ UNCHANGED <<backend, se, index_preload, nnew, ndelete, tse, cvars, rvars>>

create_index ==
  /\ alive
  /\ BackendCalls < MaxBackendCalls
  /\ \/ /\ lastcall' = [op |-> "create_index", had_se |-> IsSome(se)]
        /\ tse' = IF HasEngine(se) THEN TseCreateIndex(tse) ELSE tse
        /\ UNCHANGED <<backend, se, index_preload, nnew, ndelete, alive, twin,
                       cvars, rvars>>
     \/ HasEngine(se) /\ Freed /\ Crash

build_index ==
  /\ alive
  /\ BackendCalls < MaxBackendCalls
  /\ \/ /\ lastcall' = [op |-> "build_index", had_se |-> IsSome(se)]
        /\ tse' = IF HasEngine(se) THEN TseUpdateIndex(tse) ELSE tse
        /\ UNCHANGED <<backend, se, index_preload, nnew, ndelete, alive, twin,
                       cvars, rvars>>
     \/ HasEngine(se) /\ Freed /\ Crash

\* remove_index that also gives up the engine object
remove_index_reset ==
  /\ alive
  /\ BackendCalls < MaxBackendCalls
  /\ lastcall' = [op |-> "remove_index", had_se |-> IsSome(se)]
  /\ tse' = IF HasEngine(se) THEN TseRemoveIndex(tse) ELSE tse
  /\ se' = None
  /\ UNCHANGED <<backend, index_preload, nnew, ndelete, alive, twin, cvars, rvars>>

remove_index ==
  /\ alive
  /\ BackendCalls < MaxBackendCalls
  /\ \/ /\ lastcall' = [op |-> "remove_index", had_se |-> IsSome(se)]
        /\ tse' = IF HasEngine(se) THEN TseRemoveIndex(tse) ELSE tse
        /\ UNCHANGED <<backend, se, index_preload, nnew, ndelete, alive, twin,
                       cvars, rvars>>
     \/ HasEngine(se) /\ Freed /\ Crash

\* ~MLModel: delete _se
Destroy ==
  /\ alive
  /\ alive' = FALSE
  /\ lastcall' = [op |-> "~MLModel", had_se |-> IsSome(se)]
  /\ ndelete' = IF IsSome(se) THEN ndelete + 1 ELSE ndelete
  /\ UNCHANGED <<backend, se, index_preload, nnew, tse, twin, cvars, rvars>>

\* the implicit copy constructor: the new MLModel gets the value of _se
Copy ==
  /\ alive
  /\ ~twin.made
  /\ twin' = [made |-> TRUE, alive |-> TRUE, se |-> se]
  /\ lastcall' = [op |-> "copy", had_se |-> IsSome(se)]
  /\ UNCHANGED <<backend, se, index_preload, nnew, ndelete, tse, alive, cvars, rvars>>

\* the implicit copy assignment twin = model: _se of the twin is overwritten
Assign ==
  /\ alive
  /\ twin.alive
  /\ twin' = [twin EXCEPT !.se = se]
  /\ lastcall' = [op |-> "assign", had_se |-> IsSome(se)]
  /\ UNCHANGED <<backend, se, index_preload, nnew, ndelete, tse, alive, cvars, rvars>>

\* ~MLModel of the twin: delete _se
DestroyTwin ==
  /\ twin.alive
  /\ twin' = [twin EXCEPT !.alive = FALSE]
  /\ lastcall' = [op |-> "~twin", had_se |-> IsSome(twin.se)]
  /\ ndelete' = IF IsSome(twin.se) THEN ndelete + 1 ELSE ndelete
  /\ UNCHANGED <<backend, se, index_preload, nnew, tse, alive, cvars, rvars>>

InitIndex ==
  /\ backend \in Backends
  /\ se = None
  /\ index_preload \in BOOLEAN
  /\ nnew = 0
  /\ ndelete = 0
  /\ tse = [ncreate |-> 0, nupdate |-> 0, nremove |-> 0, artifacts |-> "none"]
  /\ alive = TRUE
  /\ twin = [made |-> FALSE, alive |-> FALSE, se |-> None]
  /\ lastcall = [op |-> "none", had_se |-> FALSE]

-----------------------------------------------------------------------------
(* Construction: the constructors, init_repo_dir, read_config_json.        *)
(* The build modelled is the one with httpclient (WIN32 not defined).      *)

\* most constructor runs over one filesystem in one behaviour
MaxRuns == 2

\* the mode init_repo_dir passes to fileops::create_dir: 0775
DirMode == 509

S_http == <<"h", "t", "t", "p", ":", "/", "/">>

S_https == <<"h", "t", "t", "p", "s", ":", "/", "/">>

S_file == <<"f", "i", "l", "e", ":", "/", "/">>

S_config == <<"/", "c", "o", "n", "f", "i", "g", ".", "j", "s", "o", "n">>

\* repository paths: a plain directory name, and a relative path whose first
\* component is a directory named "http:"
Repos == {<<"r">>, S_http \o <<"r">>}

\* archive locators given as "init"
L_http == S_http \o <<"s", "/", "m">>

L_https == S_https \o <<"s", "/", "m">>

L_file == S_file \o <<"d", "/", "m">>

L_bare == <<"m">>

Locators == {L_http, L_https, L_file, L_bare}

\* the APIData given to a constructor; None: the key is absent
Ads ==
  [repository : Repos, create_repository : {None, Some(TRUE), Some(FALSE)},
   init : {None} \cup {Some(l) : l \in Locators}, index_preload : {None}]
  \cup [repository : Repos, create_repository : {None}, init : {None},
        index_preload : {Some(TRUE), Some(FALSE)}]

Update(f, k, v) == [x \in (DOMAIN f) \cup {k} |-> IF x = k THEN v ELSE f[x]]

EmptyAd == [k \in {} |-> ""]

\* parameter sets a caller holds before construction
Adgs == {[k \in {"mllib"} |-> "M0"],
         [k \in {"mllib", "parameters"} |-> IF k = "mllib" THEN "M0" ELSE "P0"]}

\* config.json contents: not JSON, JSON that fromRapidJson rejects, or a
\* document given by its top-level members
Doc_p == [k \in {"parameters"} |-> "P1"]

Doc_px == [k \in {"parameters", "mllib", "extra"} |->
             IF k = "parameters" THEN "P2" ELSE IF k = "mllib" THEN "M1" ELSE "E1"]

Doc_x == [k \in {"extra"} |-> "E1"]

Content(k, d) == [kind |-> k, doc |-> d]

\* the config.json an archive may carry
ArchiveConfigs == {Content("malformed", EmptyAd), Content("json", Doc_p)}

\* the config.json a directory may hold before any construction
DirConfigs ==
  {Content("unconvertible", EmptyAd), Content("json", Doc_px), Content("json", Doc_x)}

\* what a file holds that is not a config.json: a model archive, or the body
\* of an HTTP error page
Archive == Content("archive", EmptyAd)

ErrPage == Content("errpage", EmptyAd)

NoContent == Content("none", EmptyAd)

DirEntry(w, m) == [kind |-> "dir", writable |-> w, mode |-> m, content |-> NoContent]

FileEntry(c) == [kind |-> "file", writable |-> TRUE, mode |-> 0, content |-> c]

\* archives that exist outside the repository
BaseFs == [p \in {L_bare} |-> FileEntry(Archive)]

\* fileops::file_exists(fname)
file_exists(f, path) == path \in DOMAIN f

\* fileops::file_exists(fname, isDir): the isDir result
is_dir(f, path) == path \in DOMAIN f /\ f[path].kind = "dir"

\* fileops::is_directory_writable
is_directory_writable(f, path) == is_dir(f, path) /\ f[path].writable

\* bool create = ad.has("create_repository") && ad.get("create_repository").get<bool>()
CreateFlag(a) == IsSome(a.create_repository) /\ Val(a.create_repository)

\* compressedf.substr(compressedf.find_last_of("/") + 1)
BaseName(compressedf) == SubstrFrom(compressedf, FindLastOf(compressedf, "/") + 1)

\* the local file named by the whole locator instead of its base name
ModelF_whole(r, compressedf) == r \o <<"/">> \o compressedf

\* _repo + "/" + base_model_fname
ModelF(r, compressedf) == r \o <<"/">> \o BaseName(compressedf)

\* the test of lines 243-245 on compressedf
HasFetchScheme(compressedf) ==
  \/ Find(compressedf, S_https) # -1
  \/ Find(compressedf, S_http) # -1
  \/ Find(compressedf, S_file) # -1

NoLoc ==
  [exists |-> FALSE, isDir |-> FALSE, staged |-> FALSE, compressedf |-> <<>>,
   modelf |-> <<>>, outcode |-> -1, content |-> NoContent]

\* logger->error(errmsg) followed by throw MLLibBadParamException(errmsg): with a
\* logger the exception is raised; through a null logger the call is undefined
\* behaviour, the process may die in it or go on to the throw
ErrorOutcomes(l) ==
  IF l THEN {"MLLibBadParamException"} ELSE {"MLLibBadParamException", "crash"}

Fail(err) ==
  /\ pc' = "done"
  /\ \E st \in ErrorOutcomes(logger) : result' = [status |-> st, err |-> err]

Finish ==
  /\ pc' = "done"
  /\ result' = [status |-> "ok", err |-> "none"]

\* a collaborator call: its name, its path or URL argument, and for create_dir
\* the mode (0 for the other calls)
Event(call, arg, mode) == [call |-> call, arg |-> arg, mode |-> mode]

\* which constructor: MLModel(ad, adg, logger), MLModel(ad), MLModel(ad, repo)
Ctors == {"ad_adg_logger", "ad", "ad_repo"}

\* the logger init_repo_dir receives: logger.get() of the caller's logger in
\* MLModel(ad, adg, logger), nullptr in MLModel(ad) and MLModel(ad, repo)
CtorLogger(c) == c = "ad_adg_logger"

\* the parameter set a constructor is given: only MLModel(ad, adg, logger) has one
CtorAdgs(c) == IF c = "ad_adg_logger" THEN Adgs ELSE {EmptyAd}

NoAd == [repository |-> <<>>, create_repository |-> None, init |-> None,
         index_preload |-> None]

\* a constructor is entered: the members have their initial values (line 191),
\* MLModel(ad, repo) sets _repo from its argument
Construct(c, a, g) ==
  /\ pc = "idle"
  /\ runs < MaxRuns
  /\ runs' = runs + 1
  /\ ctor' = c
  /\ ad' = a
  /\ adg' = g
  /\ logger' = CtorLogger(c)
  /\ repo' = IF c = "ad_repo" THEN a.repository ELSE <<>>
  /\ loc' = NoLoc
  /\ log' = <<>>
  /\ result' = [status |-> "running", err |-> "none"]
  /\ pc' = "resolve"
  /\ index_preload' = FALSE
  /\ UNCHANGED <<fs, cvars, backend, se, nnew, ndelete, tse, alive, twin, lastcall>>

\* the constructor has returned or thrown and its caller is done with the
\* outcome; what stays is the filesystem
Return ==
  /\ pc = "done"
  /\ pc' = "idle"
  /\ ctor' = "none"
  /\ ad' = NoAd
  /\ adg' = EmptyAd
  /\ logger' = FALSE
  /\ repo' = <<>>
  /\ loc' = NoLoc
  /\ log' = <<>>
  /\ result' = [status |-> "none", err |-> "none"]
  /\ index_preload' = FALSE
  /\ UNCHANGED <<fs, runs, cvars, backend, se, nnew, ndelete, tse, alive, twin, lastcall>>

\* init_repo_dir, line 203: a file in the place of the repository
RepoConflict(exists, isDir) == exists /\ ~isDir

\* lines 198-209
StepResolve ==
  /\ pc = "resolve"
  /\ repo' = ad.repository
  /\ log' = Append(log, Event("file_exists", ad.repository, 0))
  /\ LET exists == file_exists(fs, ad.repository)
         isDir  == is_dir(fs, ad.repository)
     IN /\ loc' = [loc EXCEPT !.exists = exists, !.isDir = isDir]
        /\ IF RepoConflict(exists, isDir)
           THEN Fail("RepositoryConflict")
           ELSE pc' = "create" /\ UNCHANGED result
  /\ UNCHANGED <<ctor, ad, adg, logger, fs, runs, cvars, ivars>>

\* line 210: the test that guards fileops::create_dir
MustCreate(exists, a) == ~exists /\ CreateFlag(a)

\* fileops::create_dir(_repo, 0775); its result is not looked at, the directory
\* may or may not have been made
StepCreateDir ==
  /\ pc = "create"
  /\ IF MustCreate(loc.exists, ad)
     THEN /\ log' = Append(log, Event("create_dir", repo, DirMode))
          /\ \/ fs' = Update(fs, repo, DirEntry(TRUE, DirMode))
             \/ UNCHANGED fs
     ELSE UNCHANGED <<fs, log>>
  /\ pc' = "writable"
  /\ UNCHANGED <<ctor, ad, adg, logger, repo, loc, result, runs, cvars, ivars>>

\* lines 213-224: the writability check, then _index_preload
StepWritable ==
  /\ pc = "writable"
  /\ log' = Append(log, Event("is_directory_writable", repo, 0))
  /\ IF ~is_directory_writable(fs, repo)
     THEN Fail("RepositoryNotWritable") /\ UNCHANGED index_preload
     ELSE /\ pc' = "archive"
          /\ index_preload' = IF IsSome(ad.index_preload) /\ Val(ad.index_preload)
                              THEN TRUE ELSE index_preload
          /\ UNCHANGED result
  /\ UNCHANGED <<ctor, ad, adg, logger, repo, fs, loc, runs, cvars,
                 backend, se, nnew, ndelete, tse, alive, twin, lastcall>>

\* lines 226-241: without "init" init_repo_dir returns; with it, an archive
\* already in the directory replaces the locator
StagedF(f, modelf, compressedf) == IF file_exists(f, modelf) THEN modelf ELSE compressedf

StepStaged ==
  /\ pc = "archive"
  /\ IF ~IsSome(ad.init)
     THEN pc' = "tail" /\ UNCHANGED <<loc, log>>
     ELSE LET compressedf == Val(ad.init)
              modelf == ModelF(repo, compressedf)
          IN /\ loc' = [loc EXCEPT !.compressedf = StagedF(fs, modelf, compressedf),
                                   !.modelf = modelf,
                                   !.staged = file_exists(fs, modelf)]
             /\ log' = Append(log, Event("file_exists", modelf, 0))
             /\ pc' = "fetch"
  /\ UNCHANGED <<ctor, ad, adg, logger, repo, fs, result, runs, cvars, ivars>>

\* httpclient::get_call: it throws (transport failure), or returns a status
\* code and a body
HttpOutcomes ==
  {[throws |-> TRUE, code |-> -1, body |-> NoContent],
   [throws |-> FALSE, code |-> 200, body |-> Archive],
   [throws |-> FALSE, code |-> 404, body |-> ErrPage]}

\* lines 252-267: what makes the fetch fail: the catch (...) clause
FetchFailed(o) == o.throws

\* lines 243-267
StepFetch ==
  /\ pc = "fetch"
  /\ IF HasFetchScheme(loc.compressedf)
     THEN /\ log' = Append(log, Event("get_call", loc.compressedf, 0))
          /\ \E o \in HttpOutcomes :
               /\ loc' = [loc EXCEPT !.outcode = o.code, !.content = o.body]
               /\ IF FetchFailed(o)
                  THEN Fail("ArchiveFetchFailed")
                  ELSE pc' = "persist" /\ UNCHANGED result
     ELSE pc' = "uncompress" /\ UNCHANGED <<loc, log, result>>
  /\ UNCHANGED <<ctor, ad, adg, logger, repo, fs, runs, cvars, ivars>>

\* line 271: compressedf = modelf, the archive is the local file from here on
Persisted(l) == [l EXCEPT !.compressedf = l.modelf]

\* lines 268-271: std::ofstream mof(modelf); mof << content; compressedf = modelf
StepPersist ==
  /\ pc = "persist"
  /\ fs' = Update(fs, loc.modelf, FileEntry(loc.content))
  /\ loc' = Persisted(loc)
  /\ log' = Append(log, Event("write", loc.modelf, 0))
  /\ pc' = "uncompress"
  /\ UNCHANGED <<ctor, ad, adg, logger, repo, result, runs, cvars, ivars>>

\* fileops::uncompress(compressedf, _repo): it can succeed only on a file that
\* is an archive; a successful extraction may bring a config.json
UncompressOutcomes(f, r, compressedf) ==
  {[failed |-> TRUE, fs |-> f]}
  \cup IF file_exists(f, compressedf) /\ f[compressedf].content = Archive
       THEN {[failed |-> FALSE, fs |-> f]}
            \cup {[failed |-> FALSE, fs |-> Update(f, r \o S_config, FileEntry(c))] :
                    c \in ArchiveConfigs}
       ELSE {}

\* lines 275-282
StepUncompress ==
  /\ pc = "uncompress"
  /\ log' = Append(log, Event("uncompress", loc.compressedf, 0))
  /\ \E o \in UncompressOutcomes(fs, repo, loc.compressedf) :
       /\ fs' = o.fs
       /\ IF o.failed
          THEN Fail("ArchiveInstallFailed")
          ELSE pc' = "tail" /\ UNCHANGED result
  /\ UNCHANGED <<ctor, ad, adg, logger, repo, loc, runs, cvars, ivars>>

\* read_config_json called without the test of ad.has("init")
ReadsConfig_always(c, a) == c = "ad_adg_logger"

\* lines 53-54: which constructions go on to read_config_json
ReadsConfig(c, a) == c = "ad_adg_logger" /\ IsSome(a.init)

StepTail ==
  /\ pc = "tail"
  /\ IF ReadsConfig(ctor, ad)
     THEN pc' = "read_config" /\ UNCHANGED result
     ELSE Finish
  /\ UNCHANGED <<ctor, ad, adg, logger, repo, fs, loc, log, runs, cvars, ivars>>

\* APIData::getobj("parameters") on the converted document: the member, or for
\* a document without it an empty APIData
GetObjParameters(doc) == IF "parameters" \in DOMAIN doc THEN doc["parameters"] ELSE "{}"

\* every member of the document added to adg, not "parameters" alone
AddParameters_all(g, doc) ==
  [k \in (DOMAIN g) \cup (DOMAIN doc) |-> IF k \in DOMAIN doc THEN doc[k] ELSE g[k]]

\* line 314: adg.add("parameters", adcj_parameters)
AddParameters(g, doc) == Update(g, "parameters", GetObjParameters(doc))

\* read_config_json without the tests of HasParseError and RapidjsonException:
\* what does not parse or convert is taken as an empty document
ReadConfigJson_unchecked(g, f, cf) ==
  IF ~file_exists(f, cf) THEN [adg |-> g, err |-> "none", read |-> FALSE]
  ELSE [adg |-> AddParameters(g, f[cf].content.doc), err |-> "none", read |-> TRUE]

\* read_config_json, lines 286-315, as a function of the parameter set, the
\* filesystem and cf: the parameter set after the call, the error raised
\* ("none": it returns), and whether config.json was read
ReadConfigJson(g, f, cf) ==
  IF ~file_exists(f, cf) THEN [adg |-> g, err |-> "none", read |-> FALSE]
  ELSE IF f[cf].content.kind = "malformed"
       THEN [adg |-> g, err |-> "ConfigParseError", read |-> TRUE]
  ELSE IF f[cf].content.kind = "unconvertible"
       THEN [adg |-> g, err |-> "ConfigConversionError", read |-> TRUE]
  ELSE [adg |-> AddParameters(g, f[cf].content.doc), err |-> "none", read |-> TRUE]

read_config_json ==
  /\ pc = "read_config"
  /\ LET cf == repo \o S_config
         r  == ReadConfigJson(adg, fs, cf)
     IN /\ log' = Append(log, Event("read_config_json", IF r.read THEN cf ELSE <<>>, 0))
        /\ adg' = r.adg
        /\ IF r.err = "none" THEN Finish ELSE Fail(r.err)
  /\ UNCHANGED <<ctor, ad, logger, repo, fs, loc, runs, cvars, ivars>>

\* the filesystem before the first construction: under one of the paths there
\* is nothing, a file, or a directory that may hold the archive and a config.json
InitFs ==
  {BaseFs} \cup
  UNION {
    {Update(BaseFs, r, FileEntry(Archive))} \cup
    UNION {
      {Update(BaseFs, r, DirEntry(w, DirMode)),
       Update(Update(BaseFs, r, DirEntry(w, DirMode)), r \o <<"/", "m">>, FileEntry(Archive))}
      \cup {Update(Update(BaseFs, r, DirEntry(w, DirMode)), r \o S_config, FileEntry(c)) :
              c \in DirConfigs}
      : w \in BOOLEAN}
    : r \in Repos}

InitRepo ==
  /\ pc = "idle"
  /\ ctor = "none"
  /\ ad = NoAd
  /\ adg = EmptyAd
  /\ logger = FALSE
  /\ repo = <<>>
  /\ fs \in InitFs
  /\ loc = NoLoc
  /\ result = [status |-> "none", err |-> "none"]
  /\ log = <<>>
  /\ runs = 0

-----------------------------------------------------------------------------
(* Specifications *)

\* construction of model repositories over one filesystem
Init == InitRepo /\ InitCorresp /\ corresp = <<>> /\ ~cfile.readable
        /\ InitIndex /\ backend = "annoy" /\ index_preload = FALSE

Next ==
  \/ \E c \in Ctors, a \in Ads : \E g \in CtorAdgs(c) : Construct(c, a, g)
  \/ StepResolve
  \/ StepCreateDir
  \/ StepWritable
  \/ StepStaged
  \/ StepFetch
  \/ StepPersist
  \/ StepUncompress
  \/ StepTail
  \/ read_config_json
  \/ Return

Spec == Init /\ [][Next]_vars

\* the table of class correspondences of a constructed model
InitC == InitCorresp /\ InitIndex /\ backend = "annoy" /\ ~index_preload
         /\ InitRepo /\ fs = BaseFs

NextCorresp ==
  \/ read_corresp_file
  \/ \E i \in LookupKeys : get_hcorresp(i)

SpecCorresp == InitC /\ [][NextCorresp]_vars

\* the similarity search engine of a constructed model
InitI == InitIndex /\ InitCorresp /\ corresp = <<>> /\ ~cfile.readable
         /\ InitRepo /\ fs = BaseFs

NextIndex ==
  \/ \E d \in Dims, op \in OutputParams : create_sim_search(d, op)
  \/ create_index
  \/ build_index
  \/ remove_index
  \/ Destroy

SpecIndex == InitI /\ [][NextIndex]_vars

\* output_params with no tuning field supplied
NoParams ==
  [index_type |-> None, train_samples |-> None, ondisk |-> None,
   nprobe |-> None, index_gpu |-> None, index_gpuid |-> None]

\* a model and a copy of it made by the implicit copy operations
NextCopy ==
  \/ \E d \in Dims : create_sim_search(d, NoParams)
  \/ create_index
  \/ build_index
  \/ remove_index
  \/ Destroy
  \/ Copy
  \/ Assign
  \/ DestroyTwin

SpecCopy == InitI /\ [][NextCopy]_vars

-----------------------------------------------------------------------------
(* Properties *)

\* positions in log of the calls of a collaborator
Calls(c) == {i \in 1..Len(log) : log[i].call = c}

BadParam(err) == [status |-> "MLLibBadParamException", err |-> err]

\* the table read_corresp_file builds from the file
Loaded == ReadCorrespFile(corresp, cfile, EmptyMap).map

\* C1: once read_corresp_file has loaded the table, get_hcorresp(i) returns the
\* loaded label when i is a loaded key and the decimal string of i otherwise
C1_LookupContract ==
  (cpc = "loaded" /\ ret # <<>>) =>
    ret[2] = IF ret[1] \in DOMAIN Loaded THEN Loaded[ret[1]] ELSE to_string(ret[1])

\* C2: when a file that is no directory is at the repository path, init_repo_dir
\* ends by raising the bad-parameter exception for the repository conflict,
\* whatever create_repository and init are
C2_ConflictFails ==
  (pc \notin {"idle", "resolve"} /\ RepoConflict(loc.exists, loc.isDir)) =>
    (pc = "done" /\ result = BadParam("RepositoryConflict"))

\* C3: when the locator was fetched (it has a fetch scheme and was not staged)
\* and the fetch failed, by an exception or by a status code other than 200,
\* construction ends there in the fetch failure, nothing is written and
\* uncompress is not called
C3_FetchFailureFails ==
  (Calls("get_call") # {} /\ ~loc.staged /\ loc.outcode # 200) =>
    /\ pc = "done"
    /\ result.err = "ArchiveFetchFailed"
    /\ Calls("write") = {}
    /\ Calls("uncompress") = {}

\* C4: when the file named by the base name of the locator is already in the
\* repository directory, get_call is never called, and uncompress is called on
\* that file
C4_StagedNoFetch ==
  loc.staged =>
    /\ Calls("get_call") = {}
    /\ pc \in {"tail", "read_config", "done"} =>
         \E i \in Calls("uncompress") : log[i].arg = loc.modelf

\* C5: at most one SearchEngine object is ever constructed, and a
\* create_sim_search call that finds _se set constructs nothing, leaves the
\* object with its dimension and tuning as they are, and calls no backend routine
C5_OneIndexCreateIdempotent ==
  /\ [](nnew <= 1)
  /\ [][(lastcall'.op = "create_sim_search" /\ IsSome(se)) =>
          (se' = se /\ nnew' = nnew /\ tse' = tse)]_vars

\* a second create_sim_search after create_sim_search and build_index
C5_Witness ==
  /\ lastcall = [op |-> "create_sim_search", had_se |-> TRUE]
  /\ nnew = 1
  /\ tse.ncreate = 1
  /\ tse.nupdate = 1

\* C6: while _se is null no backend routine has been called, and a call of
\* build_index, remove_index or create_index changes nothing of the model
C6_NoOpBeforeCreate ==
  /\ [](~IsSome(se) =>
          (nnew = 0 /\ tse = [ncreate |-> 0, nupdate |-> 0, nremove |-> 0,
                              artifacts |-> "none"]))
  /\ [][(~IsSome(se) /\ lastcall'.op \in {"build_index", "remove_index", "create_index"}) =>
          UNCHANGED <<backend, se, index_preload, nnew, ndelete, tse, alive,
                      twin, cvars, rvars>>]_vars

\* remove_index was called on a model that has no engine
C6_Witness == ~IsSome(se) /\ lastcall = [op |-> "remove_index", had_se |-> FALSE]

\* C7: read_config_json on a config.json that is not JSON, or that does not
\* convert, raises the bad-parameter exception for it and leaves adg as it was
C7_ConfigErrorKeepsParams ==
  [][(/\ pc = "read_config"
      /\ file_exists(fs, repo \o S_config)
      /\ fs[repo \o S_config].content.kind \in {"malformed", "unconvertible"}) =>
       /\ adg' = adg
       /\ pc' = "done"
       /\ result' = BadParam(IF fs[repo \o S_config].content.kind = "malformed"
                             THEN "ConfigParseError" ELSE "ConfigConversionError")]_vars

\* a construction ended by the parse error of a config.json
C7_Witness ==
  /\ pc = "done"
  /\ result = BadParam("ConfigParseError")
  /\ Calls("read_config_json") # {}
  /\ "mllib" \in DOMAIN adg

\* C8: a read_config_json that returns changes no entry of adg other than
\* "parameters": the other keys are the same and have the same values
C8_OnlyParameters ==
  [][(pc = "read_config" /\ pc' = "done" /\ result'.status = "ok") =>
       /\ (DOMAIN adg') \ {"parameters"} = (DOMAIN adg) \ {"parameters"}
       /\ \A k \in (DOMAIN adg) \ {"parameters"} : adg'[k] = adg[k]]_vars

\* a config.json with members besides "parameters" was loaded into adg
C8_Witness ==
  /\ pc = "done"
  /\ result.status = "ok"
  /\ \E i \in Calls("read_config_json") : log[i].arg = repo \o S_config
  /\ fs[repo \o S_config].content = Content("json", Doc_px)
  /\ adg = [k \in {"mllib", "parameters"} |-> IF k = "mllib" THEN "M0" ELSE "P2"]

\* the archive install (and the directory checks before it) raised no error
InstallOk ==
  result.err \notin {"RepositoryConflict", "RepositoryNotWritable",
                     "ArchiveFetchFailed", "ArchiveInstallFailed"}

\* C9 as stated: at the end of every construction, read_config_json was called
\* exactly when "init" was given and the install ended without error
C9_LoadIffInit ==
  pc = "done" =>
    (Calls("read_config_json") # {} <=> (IsSome(ad.init) /\ InstallOk))

\* C9, amended: at the end of a construction read_config_json was called exactly
\* when the constructor is MLModel(ad, adg, logger), "init" was given and the
\* install ended without error, and then after uncompress; without "init"
\* config.json is never read; and read_config_json without a config.json
\* returns and leaves adg as it was
C9_LoadIffInitCtor3 ==
  /\ [](pc = "done" =>
          /\ Calls("read_config_json") # {} <=>
               (ctor = "ad_adg_logger" /\ IsSome(ad.init) /\ InstallOk)
          /\ \A i \in Calls("read_config_json") :
               \E j \in Calls("uncompress") : j < i
          /\ ~IsSome(ad.init) => Calls("read_config_json") = {})
  /\ [][(pc = "read_config" /\ ~file_exists(fs, repo \o S_config)) =>
          (adg' = adg /\ pc' = "done" /\ result'.status = "ok")]_vars

\* a construction with "init" that found no config.json
C9_Witness ==
  /\ pc = "done"
  /\ result.status = "ok"
  /\ IsSome(ad.init)
  /\ \E i \in Calls("read_config_json") : log[i].arg = <<>>
  /\ "parameters" \in DOMAIN adg

\* C10: for a repository path with no entry: with creation requested create_dir
\* is called on it with mode 0775 before the writability check; without, no
\* create_dir is called, no directory appears and construction ends with the
\* not-writable failure raised; for a directory that exists create_dir is never
\* called
C10_CreateOrNotWritable ==
  pc \notin {"idle", "resolve", "create"} =>
    /\ (~loc.exists /\ CreateFlag(ad)) =>
         /\ Calls("create_dir") # {}
         /\ \A i \in Calls("create_dir") :
              /\ log[i].arg = ad.repository
              /\ log[i].mode = DirMode
              /\ \A j \in Calls("is_directory_writable") : i < j
    /\ (~loc.exists /\ ~CreateFlag(ad)) =>
         /\ Calls("create_dir") = {}
         /\ ~file_exists(fs, ad.repository)
         /\ pc # "writable" =>
              (pc = "done" /\ result = BadParam("RepositoryNotWritable"))
    /\ (loc.exists /\ loc.isDir) => Calls("create_dir") = {}

\* C11: with an empty file name, or a file that cannot be opened,
\* read_corresp_file returns without an exception and leaves the table empty,
\* and every get_hcorresp(i) after it returns the decimal string of i
C11_NoFileIdentity ==
  (corresp = <<>> \/ ~cfile.readable) =>
    /\ cpc # "threw"
    /\ hcorresp = EmptyMap
    /\ (cpc = "loaded" /\ ret # <<>>) => ret[2] = to_string(ret[1])

\* a lookup of 12 after read_corresp_file could not open the file
C11_Witness ==
  /\ corresp = CorrespPath
  /\ ~cfile.readable
  /\ cpc = "loaded"
  /\ ret = <<12, <<"1", "2">>>>

\* C12: every construction that ends in a failure ends by the bad-parameter
\* exception reaching the caller, whichever constructor ran init_repo_dir, and
\* no collaborator that failed was called a second time in the run
C12_FailureIsBadParam ==
  (pc = "done" /\ result.err # "none") =>
    /\ result.status = "MLLibBadParamException"
    /\ \A c \in {"create_dir", "is_directory_writable", "get_call", "uncompress",
                  "read_config_json"} : Cardinality(Calls(c)) <= 1

\* C13: once read_corresp_file has loaded the table, the table stays the one it
\* loaded, whatever keys get_hcorresp is called with
C13_TableImmutable == cpc = "loaded" => hcorresp = Loaded

\* C14: a construction with "init" that ends without error called uncompress
\* exactly once; every get_call is before it, is followed by the write of the
\* fetched content to the file repository/base name, and uncompress is called
\* on that file after the write
C14_FetchWriteExtract ==
  (pc = "done" /\ result.status = "ok" /\ IsSome(ad.init)) =>
    /\ Cardinality(Calls("uncompress")) = 1
    /\ \A g \in Calls("get_call") :
         \E w \in Calls("write") : \E u \in Calls("uncompress") :
           /\ g < w /\ w < u
           /\ log[w].arg = repo \o <<"/">> \o BaseName(Val(ad.init))
           /\ log[u].arg = log[w].arg
           /\ file_exists(fs, log[w].arg)
           /\ fs[log[w].arg].content = loc.content

\* a construction that fetched http://s/m, wrote r/m and installed it
C14_Witness ==
  /\ pc = "done"
  /\ result.status = "ok"
  /\ ad.init = Some(L_http)
  /\ repo = <<"r">>
  /\ Calls("get_call") # {}
  /\ loc.outcode = 200
  /\ \E u \in Calls("uncompress") : log[u].arg = <<"r", "/", "m">>

\* C15: every failure ends the construction: after the conflict or the failed
\* writability check nothing is fetched, written, uncompressed or loaded; after
\* a fetch that failed (exception, or status code other than 200) nothing is
\* uncompressed or loaded; after a failed uncompress no config is loaded; and a
\* directory the run created is still there when a later step fails
C15_FailureTerminal ==
  /\ result.err \in {"RepositoryConflict", "RepositoryNotWritable"} =>
       /\ pc = "done"
       /\ \A c \in {"get_call", "write", "uncompress", "read_config_json"} :
            Calls(c) = {}
  /\ (Calls("get_call") # {} /\ loc.outcode # 200) =>
       /\ Calls("uncompress") = {}
       /\ Calls("read_config_json") = {}
  /\ result.err = "ArchiveInstallFailed" =>
       (pc = "done" /\ Calls("read_config_json") = {})
  /\ (result.err \in {"ArchiveFetchFailed", "ArchiveInstallFailed"}
        /\ Calls("create_dir") # {} /\ ~loc.exists) =>
       is_dir(fs, repo)

\* C16 as stated: after a remove_index that found an engine the model has no
\* engine again (Uninitialized), and after a build_index that found an engine
\* the index is built
C16_RemoveToUninitialized ==
  /\ (lastcall.op = "remove_index" /\ lastcall.had_se) => ~IsSome(se)
  /\ (lastcall.op = "build_index" /\ lastcall.had_se) => tse.artifacts = "built"

\* C16, amended: the engine object, once made, stays and stays the same;
\* remove_index on it calls the backend's remove_index, which deletes the
\* artifacts, and build_index and create_index on it call the backend whether
\* or not remove_index was called before; build_index leaves the index built
C16_RemoveKeepsEngine ==
  /\ [][IsSome(se) => se' = se]_vars
  /\ [][(lastcall'.op = "remove_index" /\ IsSome(se)) =>
          (tse'.nremove = tse.nremove + 1 /\ tse'.artifacts = "none")]_vars
  /\ [][(lastcall'.op = "build_index" /\ IsSome(se)) =>
          (tse'.nupdate = tse.nupdate + 1 /\ tse'.artifacts = "built")]_vars
  /\ [][(lastcall'.op = "create_index" /\ IsSome(se)) =>
          tse'.ncreate = tse.ncreate + 1]_vars

\* create_sim_search, remove_index, then build_index on the engine that stayed
C16_Witness ==
  /\ lastcall = [op |-> "build_index", had_se |-> TRUE]
  /\ IsSome(se)
  /\ tse = [ncreate |-> 1, nupdate |-> 1, nremove |-> 1, artifacts |-> "built"]

Owners ==
  (IF alive /\ IsSome(se) THEN {"model"} ELSE {})
    \cup (IF twin.alive /\ IsSome(twin.se) THEN {"twin"} ELSE {})

\* C18: an engine that was made and not deleted has exactly one owner, no
\* engine is deleted twice, and once the models are destroyed every engine
\* made has been deleted once, copies and assignments included
C18_OneOwnerOneRelease ==
  /\ (nnew = 1 /\ ndelete = 0 /\ lastcall.op # "crash") => Cardinality(Owners) = 1
  /\ ndelete <= nnew
  /\ (~alive /\ ~twin.alive /\ lastcall.op # "crash") => ndelete = nnew

\* the lines of a file: the pieces between the newline characters
RECURSIVE FileLines(_)
FileLines(text) ==
  LET n == Find(text, <<NL>>)
  IN IF n = -1 THEN <<text>>
     ELSE <<SubstrTo(text, n)>> \o FileLines(SubstrFrom(text, n + 1))

\* the part of a line before its first space
LineKey(line) == SubstrTo(line, Find(line, <<SP>>))

\* the part of a line after its first space
LineLabel(line) == SubstrFrom(line, Find(line, <<SP>>) + 1)

\* C19: when read_corresp_file has read a file, every line with a non-empty
\* part before its first space has the integer value of that part as a key of
\* the table, with the rest of the first such line as its label, and the
\* table has no other key
C19_LineToEntry ==
  (cpc # "new" /\ ret = <<>> /\ corresp # <<>> /\ cfile.readable) =>
    LET ls    == FileLines(cfile.text)
        keyed == {i \in 1..Len(ls) : LineKey(ls[i]) # <<>>}
        K(i)  == stoi(LineKey(ls[i]))
    IN /\ \A i \in keyed :
            /\ IsSome(K(i))
            /\ Val(K(i)) \in DOMAIN hcorresp
            /\ \E j \in keyed :
                 /\ K(j) = K(i)
                 /\ \A h \in keyed : K(h) = K(i) => j <= h
                 /\ hcorresp[Val(K(i))] = LineLabel(ls[j])
       /\ \A k \in DOMAIN hcorresp : \E i \in keyed : K(i) = Some(k)

\* C20: the file repository/base name is written only after a get_call that
\* returned status 200, and a construction that called get_call without
\* getting the archive ends with no file at repository/base name
C20_StagedOnlyAfterFetch ==
  /\ Calls("write") # {} => loc.outcode = 200
  /\ (pc = "done" /\ ~loc.staged /\ Calls("get_call") # {} /\ loc.content # Archive) =>
       ~file_exists(fs, loc.modelf)

\* a second construction finds the error page the first one wrote, as its
\* staged archive
C20_BadStagedFile ==
  /\ runs = 2
  /\ repo = <<"r">>
  /\ loc.staged
  /\ ad.init = Some(L_http)
  /\ file_exists(fs, loc.modelf)
  /\ fs[loc.modelf].content = ErrPage

=============================================================================
